---- MODULE Spec2Model ----
(***************************************************************************)
(* Model of ArcPyWrapper.py: name resolution, the lifecycle of (temporary) *)
(* dataset handles (Table, FeatureClass, Raster, MosaicDataset) against    *)
(* the geoprocessing backing store, and the robust overview build.         *)
(*                                                                         *)
(* Strings are sequences of one-character strings.  os.path is modelled    *)
(* with a single separator "/" (posixpath rules).  The backing store is    *)
(* the set of catalog paths that currently exist.                          *)
(***************************************************************************)
EXTENDS Integers, Sequences, FiniteSets, TLC

VARIABLES store, handle, last, robust, names, timer, parsed, progressor, messages, pcall,
          mosaic_layer, events

\* the variables of the parts of the library that hold no dataset handle
fnVars == <<timer, parsed, progressor, messages, pcall, mosaic_layer, events>>

vars == <<store, handle, last, robust, names, fnVars>>

----------------------------------------------------------------------------
(* Bounds of the model *)

\* largest numeric suffix the uniqueness service is asked to try
MaxSuffix == 3
\* largest max_retries argument tried
MaxRetries == 3
\* largest unbuilt-overview count the store reports
MaxUnbuilt == 2

\* the elapsed times tried run from 0 to MaxElapsed seconds (1 h 2 min 2 s)
MaxElapsed == 3722
\* longest table name given to parse_table_name on its own
MaxNameLen == 3
\* most messages one Progressor sends to the toolkit
MaxMessages == 3
\* most layer constructions and delegated operations of one run
MaxEvents == 3

\* the handles of one run, numbered in the order of their construction
Handles == {1, 2}

----------------------------------------------------------------------------
(* Optional values: None is the empty tuple, a value v is <<v>> *)

None == <<>>
Some(v) == <<v>>
IsNone(o) == Len(o) = 0
Val(o) == o[1]

\* Python values: an int, or None
IntV(n) == [tag |-> "int", v |-> n]
NoneV == [tag |-> "None", v |-> 0]

----------------------------------------------------------------------------
(* os.path *)

Sep == "/"

RECURSIVE LastSep(_, _)
LastSep(p, i) == IF i = 0 THEN 0 ELSE IF p[i] = Sep THEN i ELSE LastSep(p, i - 1)

RECURSIVE RStripSep(_)
RStripSep(p) ==
    IF p # <<>> /\ p[Len(p)] = Sep THEN RStripSep(SubSeq(p, 1, Len(p) - 1)) ELSE p

\* os.path.dirname: everything up to the last separator, trailing separators
\* stripped unless the head consists of separators only
dirname(p) ==
    LET head == SubSeq(p, 1, LastSep(p, Len(p)))
    IN  IF RStripSep(head) # <<>> THEN RStripSep(head) ELSE head

\* os.path.basename: everything after the last separator
basename(p) == SubSeq(p, LastSep(p, Len(p)) + 1, Len(p))

\* os.path.join of two components
join(a, b) ==
    IF b # <<>> /\ b[1] = Sep THEN b
    ELSE IF a = <<>> \/ a[Len(a)] = Sep THEN a \o b
    ELSE a \o <<Sep>> \o b

----------------------------------------------------------------------------
(* Name resolution *)

\* decode_names that takes the locator itself as the full name and leaves the
\* container empty when no table name is given
decode_names_NoSplit(geodatabase_name, table_name) ==
    IF IsNone(table_name)
    THEN [gdb |-> <<>>, name |-> basename(geodatabase_name), full |-> geodatabase_name]
    ELSE [gdb |-> geodatabase_name, name |-> Val(table_name),
          full |-> IF geodatabase_name = <<>> THEN Val(table_name)
                   ELSE join(geodatabase_name, Val(table_name))]

\* decode_names(geodatabase_name, table_name=None)
decode_names(geodatabase_name, table_name) ==
    LET local_geodatabase_name ==
            IF IsNone(table_name) THEN dirname(geodatabase_name) ELSE geodatabase_name
        local_table_name ==
            IF IsNone(table_name) THEN basename(geodatabase_name) ELSE Val(table_name)
        local_full_name ==
            IF local_geodatabase_name = <<>> THEN local_table_name
            ELSE join(local_geodatabase_name, local_table_name)
    IN  [gdb |-> local_geodatabase_name, name |-> local_table_name, full |-> local_full_name]

RECURSIVE ReplaceChars(_, _)
ReplaceChars(s, m) ==
    IF s = <<>> THEN <<>>
    ELSE (IF s[1] \in DOMAIN m THEN m[s[1]] ELSE <<s[1]>>) \o ReplaceChars(Tail(s), m)

\* parse_table_name that keeps a character whose mapped value is empty
\* (replacechars.get(ch) or ch)
parse_table_name_KeepsRemoved(table_name, replacechars) ==
    IF IsNone(replacechars) THEN table_name
    ELSE ReplaceChars(table_name,
                      [c \in {k \in DOMAIN Val(replacechars) : Val(replacechars)[k] # <<>>}
                          |-> Val(replacechars)[c]])

\* parse_table_name(table_name, replacechars=None)
parse_table_name(table_name, replacechars) ==
    IF IsNone(replacechars) THEN table_name
    ELSE ReplaceChars(table_name, Val(replacechars))

\* replace_list of Table.__init__
replace_list == [c \in {" ", "."} |-> IF c = " " THEN <<"_">> ELSE <<>>]

\* arcpy.env.scratchGDB and arcpy.env.scratchFolder
scratchGDB == <<"s">>
scratchFolder == <<"f">>

Digit(i) == CASE i = 0 -> "0" [] i = 1 -> "1" [] i = 2 -> "2" [] i = 3 -> "3" [] OTHER -> "9"

\* the i-th candidate of the uniqueness service: the name itself, then the
\* name with 0, 1, 2, ... appended
Candidate(name, workspace, i) ==
    join(workspace, IF i = 0 THEN name ELSE name \o <<Digit(i - 1)>>)

\* arcpy.CreateUniqueName(name, workspace): the first candidate that does not
\* exist in the workspace
CreateUniqueName(name, workspace, st) ==
    LET free == {i \in 0..MaxSuffix : Candidate(name, workspace, i) \notin st}
    IN  Candidate(name, workspace, CHOOSE i \in free : \A j \in free : i <= j)

\* initialize_names whose temporary branch joins container and name itself
\* instead of asking the uniqueness service
initialize_names_NotUnique(geodatabase_name, table_name, temptable, scratch, replacechars, st) ==
    LET d == decode_names(geodatabase_name, table_name)
    IN  IF temptable
        THEN decode_names(join(IF d.gdb = <<>> THEN Val(scratch) ELSE d.gdb,
                               parse_table_name(d.name, replacechars)), None)
             @@ [asked |-> <<>>]
        ELSE decode_names(geodatabase_name,
                          IF ~IsNone(table_name) /\ Val(table_name) # <<>>
                          THEN Some(parse_table_name(Val(table_name), replacechars))
                          ELSE None)
             @@ [asked |-> <<>>]

\* initialize_names(geodatabase_name, table_name, temptable, scratch, replacechars):
\* the names returned and, in asked, the calls of arcpy.CreateUniqueName made
initialize_names(geodatabase_name, table_name, temptable, scratch, replacechars, st) ==
    IF temptable
    THEN LET d == decode_names(geodatabase_name, table_name)
             local_geodatabase_name ==
                 IF d.gdb = <<>>
                 THEN (IF IsNone(scratch) THEN scratchGDB ELSE Val(scratch))
                 ELSE d.gdb
             local_table_name == parse_table_name(d.name, replacechars)
             unique_name == CreateUniqueName(local_table_name, local_geodatabase_name, st)
         IN  decode_names(unique_name, None)
             @@ [asked |-> << [name |-> local_table_name,
                               workspace |-> local_geodatabase_name,
                               answer |-> unique_name] >>]
    ELSE LET local_table_name ==
                 IF ~IsNone(table_name) /\ Val(table_name) # <<>>
                 THEN Some(parse_table_name(Val(table_name), replacechars))
                 ELSE None
         IN  decode_names(geodatabase_name, local_table_name) @@ [asked |-> <<>>]

----------------------------------------------------------------------------
(* Timer *)

DecimalDigit(d) ==
    CASE d = 0 -> "0" [] d = 1 -> "1" [] d = 2 -> "2" [] d = 3 -> "3" [] d = 4 -> "4"
      [] d = 5 -> "5" [] d = 6 -> "6" [] d = 7 -> "7" [] d = 8 -> "8" [] OTHER -> "9"

\* "{}".format(n) of a natural number: its decimal digits
RECURSIVE Format(_)
Format(n) == IF n < 10 THEN <<DecimalDigit(n)>> ELSE Format(n \div 10) \o <<DecimalDigit(n % 10)>>

\* report_elapsed_time that takes 0 for singular as well
report_elapsed_time_ZeroSingular(elapsed_time) ==
    LET seconds_time == elapsed_time % 60
        seconds_string == IF seconds_time <= 1 THEN <<"1", " ", "second">>
                          ELSE Format(seconds_time) \o <<" ", "seconds">>
        minutes_time == (elapsed_time % 3600) \div 60
        minutes_string == IF minutes_time <= 1 THEN <<"1", " ", "minute">>
                          ELSE Format(minutes_time) \o <<" ", "minutes">>
        hours_time == elapsed_time \div 3600
        hours_string == IF hours_time <= 1 THEN <<"1", " ", "hour">>
                        ELSE Format(hours_time) \o <<" ", "hours">>
    IN  IF elapsed_time < 60
        THEN [ret |-> seconds_string, values |-> <<seconds_time>>]
        ELSE IF elapsed_time < 3600
        THEN [ret |-> minutes_string \o <<" ">> \o seconds_string,
              values |-> <<minutes_time, seconds_time>>]
        ELSE [ret |-> hours_string \o <<" ">> \o minutes_string \o <<" ">> \o seconds_string,
              values |-> <<hours_time, minutes_time, seconds_time>>]

\* report_elapsed_time that shows the minutes only from one hour on
report_elapsed_time_NoMinutes(elapsed_time) ==
    LET seconds_time == elapsed_time % 60
        seconds_string == IF seconds_time = 1 THEN <<"1", " ", "second">>
                          ELSE Format(seconds_time) \o <<" ", "seconds">>
        minutes_time == (elapsed_time % 3600) \div 60
        minutes_string == IF minutes_time = 1 THEN <<"1", " ", "minute">>
                          ELSE Format(minutes_time) \o <<" ", "minutes">>
        hours_time == elapsed_time \div 3600
        hours_string == IF hours_time = 1 THEN <<"1", " ", "hour">>
                        ELSE Format(hours_time) \o <<" ", "hours">>
    IN  IF elapsed_time < 3600
        THEN [ret |-> seconds_string, values |-> <<seconds_time>>]
        ELSE [ret |-> hours_string \o <<" ">> \o minutes_string \o <<" ">> \o seconds_string,
              values |-> <<hours_time, minutes_time, seconds_time>>]

\* report_elapsed_time that wraps the hours at 24
report_elapsed_time_WrapsHours(elapsed_time) ==
    LET seconds_time == elapsed_time % 60
        seconds_string == IF seconds_time = 1 THEN <<"1", " ", "second">>
                          ELSE Format(seconds_time) \o <<" ", "seconds">>
        minutes_time == (elapsed_time % 3600) \div 60
        minutes_string == IF minutes_time = 1 THEN <<"1", " ", "minute">>
                          ELSE Format(minutes_time) \o <<" ", "minutes">>
        hours_time == (elapsed_time \div 3600) % 24
        hours_string == IF hours_time = 1 THEN <<"1", " ", "hour">>
                        ELSE Format(hours_time) \o <<" ", "hours">>
    IN  IF elapsed_time < 60
        THEN [ret |-> seconds_string, values |-> <<seconds_time>>]
        ELSE IF elapsed_time < 3600
        THEN [ret |-> minutes_string \o <<" ">> \o seconds_string,
              values |-> <<minutes_time, seconds_time>>]
        ELSE [ret |-> hours_string \o <<" ">> \o minutes_string \o <<" ">> \o seconds_string,
              values |-> <<hours_time, minutes_time, seconds_time>>]

\* report_elapsed_time that rounds the minutes to the nearest minute
report_elapsed_time_Rounds(elapsed_time) ==
    LET seconds_time == elapsed_time % 60
        seconds_string == IF seconds_time = 1 THEN <<"1", " ", "second">>
                          ELSE Format(seconds_time) \o <<" ", "seconds">>
        minutes_time == ((elapsed_time % 3600) + 30) \div 60
        minutes_string == IF minutes_time = 1 THEN <<"1", " ", "minute">>
                          ELSE Format(minutes_time) \o <<" ", "minutes">>
        hours_time == elapsed_time \div 3600
        hours_string == IF hours_time = 1 THEN <<"1", " ", "hour">>
                        ELSE Format(hours_time) \o <<" ", "hours">>
    IN  IF elapsed_time < 60
        THEN [ret |-> seconds_string, values |-> <<seconds_time>>]
        ELSE IF elapsed_time < 3600
        THEN [ret |-> minutes_string \o <<" ">> \o seconds_string,
              values |-> <<minutes_time, seconds_time>>]
        ELSE [ret |-> hours_string \o <<" ">> \o minutes_string \o <<" ">> \o seconds_string,
              values |-> <<hours_time, minutes_time, seconds_time>>]

\* Timer.report_elapsed_time(elapsed_time) of an integer number of seconds: the
\* string returned and, in values, the numbers formatted into it; int() of a
\* quotient of non-negative integers is their integer quotient
report_elapsed_time(elapsed_time) ==
    LET seconds_time == elapsed_time % 60
        seconds_string == IF seconds_time = 1 THEN <<"1", " ", "second">>
                          ELSE Format(seconds_time) \o <<" ", "seconds">>
        minutes_time == (elapsed_time % 3600) \div 60
        minutes_string == IF minutes_time = 1 THEN <<"1", " ", "minute">>
                          ELSE Format(minutes_time) \o <<" ", "minutes">>
        hours_time == elapsed_time \div 3600
        hours_string == IF hours_time = 1 THEN <<"1", " ", "hour">>
                        ELSE Format(hours_time) \o <<" ", "hours">>
    IN  IF elapsed_time < 60
        THEN [ret |-> seconds_string, values |-> <<seconds_time>>]
        ELSE IF elapsed_time < 3600
        THEN [ret |-> minutes_string \o <<" ">> \o seconds_string,
              values |-> <<minutes_time, seconds_time>>]
        ELSE [ret |-> hours_string \o <<" ">> \o minutes_string \o <<" ">> \o seconds_string,
              values |-> <<hours_time, minutes_time, seconds_time>>]

\* the elapsed times tried: every second up to MaxElapsed, two hours and more,
\* a day and more
ElapsedTimes == 0..MaxElapsed \cup {7200, 7261, 7322, 86400, 90061}

----------------------------------------------------------------------------
(* Inputs *)

Kinds == {"Table", "FeatureClass", "Raster", "MosaicDataset"}

\* constructor arguments (geodatabase_name, table_name) tried by the model
CtorArgs ==
    { [g |-> <<"t">>, t |-> None],
      [g |-> <<"g", "/", "t">>, t |-> None],
      [g |-> <<"g">>, t |-> Some(<<"t", ".">>)] }

\* the constructor calls tried: handle 1 is any handle; handle 2 is a
\* TempFeatureClass(table_name), the temporary the library itself constructs
\* while other handles are live (delete_bad_overviews, delete_external_rasters)
CtorCalls(h) ==
    IF h = 1
    THEN [kind : Kinds, temp : BOOLEAN, a : CtorArgs]
    ELSE [kind : {"FeatureClass"}, temp : {TRUE}, a : {a \in CtorArgs : IsNone(a.t)}]

\* containers and names of the locators tried on name resolution alone
NameContainers == { <<>>, <<"g">>, <<"g", "/">>, <<"/">>, <<"g", "/", "p">> }
NameNames == { <<>>, <<"t">>, <<"a", " ", "b", ".", "c">> }

\* the constructor calls tried on name resolution alone: any kind, temporary or
\* not, with the locator of a dataset or with a container and an explicit name
NameCalls ==
    [kind : Kinds, temp : BOOLEAN,
     a : {[g |-> IF c = <<>> THEN n ELSE join(c, n), t |-> None] :
              c \in NameContainers, n \in NameNames}
         \cup {[g |-> c, t |-> Some(n)] : c \in NameContainers, n \in NameNames}]

\* datasets that may exist in the workspaces before the program starts
InitialPaths == { <<"s", "/", "t">>, <<"g", "/", "t">> }

\* the table names given to parse_table_name on its own: every string of at
\* most MaxNameLen of these characters, and the name "a b.c"
NameChars == {"a", " ", ".", "_"}
TableNames ==
    UNION {[1..n -> NameChars] : n \in 0..MaxNameLen} \cup {<<"a", " ", "b", ".", "c">>}

\* the character maps given: none, the replace list of Table.__init__, and a
\* map that exchanges two characters
CharMaps ==
    {None, Some(replace_list),
     Some([c \in {"a", "_"} |-> IF c = "a" THEN <<"_">> ELSE <<"a">>])}

----------------------------------------------------------------------------
(* Backing store *)

\* the catalog path the store gives a dataset created as (workspace, name)
StorePath(gdb, name) == IF gdb = <<>> THEN name ELSE join(gdb, name)

\* arcpy.Exists(full_name)
Exists(full_name, st) == full_name \in st

\* arcpy.Delete_management(full_name); ok is whether the store honours the request
Delete_management(full_name, st, ok) == IF ok THEN st \ {full_name} ELSE st

\* delete() that sends the deletion request without asking whether the
\* resource exists
delete_Unchecked(full_name, st, ok) ==
    LET st1 == Delete_management(full_name, st, ok)
    IN  IF Exists(full_name, st1)
        THEN [store |-> st1, ret |-> "False", reqs |-> 1, checks |-> 1, msg |-> "AddError"]
        ELSE [store |-> st1, ret |-> "True", reqs |-> 1, checks |-> 1, msg |-> "output_msg"]

\* delete() that does not check again after the deletion request
delete_NoRecheck(full_name, st, ok) ==
    IF Exists(full_name, st)
    THEN [store |-> Delete_management(full_name, st, ok), ret |-> "True", reqs |-> 1,
          checks |-> 1, msg |-> "output_msg"]
    ELSE [store |-> st, ret |-> "True", reqs |-> 0, checks |-> 1, msg |-> "none"]

\* delete() that never sends the deletion request
delete_NoRequest(full_name, st, ok) ==
    [store |-> st, ret |-> "True", reqs |-> 0, checks |-> 1, msg |-> "none"]

\* Table.delete / Raster.delete / MosaicDataset.delete: the store afterwards, the
\* value returned, the deletion requests sent, the existence checks made and
\* the message reported
delete(full_name, st, ok) ==
    IF Exists(full_name, st)
    THEN LET st1 == Delete_management(full_name, st, ok)
         IN  IF Exists(full_name, st1)
             THEN [store |-> st1, ret |-> "False", reqs |-> 1, checks |-> 2,
                   msg |-> "AddError"]
             ELSE [store |-> st1, ret |-> "True", reqs |-> 1, checks |-> 2,
                   msg |-> "output_msg"]
    ELSE [store |-> st, ret |-> "True", reqs |-> 0, checks |-> 1, msg |-> "none"]

\* the constructors that raise arcpy.ExecuteError when delete() returns False
\* (Table.__init__, inherited by FeatureClass, and MosaicDataset.__init__);
\* Raster.__init__ discards the value
CtorRaises(kind, ret) == kind # "Raster" /\ ret = "False"

\* cleanup regardless of the temporary flag
CleansUp_Always(temp) == TRUE

\* cleanup with the test of the temporary flag inverted
CleansUp_Inverted(temp) == temp = FALSE

\* __exit__ and __del__ call delete() only when the temporary flag is set
CleansUp(temp) == temp = TRUE

----------------------------------------------------------------------------
(* State *)

NoHandle ==
    [kind |-> "none", temp |-> FALSE, gdb |-> <<>>, name |-> <<>>, full |-> <<>>,
     pc |-> "none", ctorRet |-> "none", raised |-> FALSE, exitOut |-> "none",
     disposed |-> FALSE, locPath |-> <<>>, locExisted |-> FALSE]

NoOp ==
    [op |-> "init", h |-> 0, reqs |-> 0, checks |-> 0, ret |-> "none", kept |-> TRUE,
     msg |-> "none", existed |-> FALSE, prevRet |-> "none", prevReqs |-> 0,
     wasDisposed |-> FALSE, exc |-> FALSE, raised |-> FALSE, suppressed |-> FALSE]

Idle ==
    [h |-> 0, max_retries |-> 0, counts |-> <<>>, rets |-> <<>>, builds |-> 0,
     deletes |-> 0, outcome |-> "idle"]

NoCall ==
    [kind |-> "none", temp |-> FALSE, g |-> <<>>, t |-> None, asked |-> <<>>,
     gdb |-> <<>>, name |-> <<>>, full |-> <<>>]

\* no elapsed time reported yet
NoReport == [called |-> FALSE, elapsed_time |-> 0, ret |-> <<>>, values |-> <<>>]

\* parse_table_name not called yet
NoParse ==
    [called |-> FALSE, table_name |-> <<>>, replacechars |-> None, ret |-> <<>>,
     again |-> <<>>]

\* no Progressor constructed yet
NoProgressor ==
    [constructed |-> FALSE, type |-> "default", label |-> None, min_range |-> 0,
     max_range |-> 100, step_value |-> 1, position |-> 0, initialized |-> FALSE]

\* no Progressor method called yet
NoProgressorCall == [op |-> "none", arg |-> None, stored |-> None, sent |-> 0]

Init ==
    /\ store \in SUBSET InitialPaths
    /\ handle = [h \in Handles |-> NoHandle]
    /\ last = NoOp
    /\ robust = Idle
    /\ names = NoCall
    /\ timer = NoReport
    /\ parsed = NoParse
    /\ progressor = NoProgressor
    /\ messages = <<>>
    /\ pcall = NoProgressorCall
    /\ mosaic_layer = [h \in Handles |-> None]
    /\ events = <<>>

\* the handle can be operated on: constructed and not yet finalized
Usable(h) == handle[h].pc \in {"live", "scope", "exited"}

\* the operations that may call delete()
DeleteOps == {"ctor", "delete", "exit", "del"}

\* the record of an operation of handle h that called delete() with result d
DeleteOp(op, h, d, exc) ==
    [op |-> op, h |-> h, reqs |-> d.reqs, checks |-> d.checks, ret |-> d.ret,
     kept |-> (d.store = store), msg |-> d.msg,
     existed |-> Exists(handle[h].full, store),
     prevRet |-> IF last.h = h /\ last.op \in DeleteOps THEN last.ret ELSE "none",
     prevReqs |-> IF last.h = h /\ last.op \in DeleteOps THEN last.reqs ELSE 0,
     wasDisposed |-> handle[h].disposed, exc |-> exc, raised |-> FALSE,
     suppressed |-> FALSE]

\* the record of an operation of handle h that did not call delete()
PlainOp(op, h, ret, checks, exc, st1) ==
    [op |-> op, h |-> h, reqs |-> 0, checks |-> checks, ret |-> ret, kept |-> (st1 = store),
     msg |-> "none", existed |-> Exists(handle[h].full, store), prevRet |-> "none",
     prevReqs |-> 0, wasDisposed |-> handle[h].disposed, exc |-> exc, raised |-> FALSE,
     suppressed |-> FALSE]

----------------------------------------------------------------------------
(* Construction *)

\* the scratch workspace and the character map each constructor passes on
ScratchOf(kind) == IF kind = "Raster" THEN Some(scratchFolder) ELSE Some(scratchGDB)
ReplaceOf(kind) == IF kind \in {"Table", "FeatureClass"} THEN Some(replace_list) ELSE None

\* the path the caller's locator denotes: its own container (the scratch
\* workspace when it has none) and its sanitized name
LocatorPath(kind, a) ==
    LET d == decode_names(a.g, a.t)
    IN  join(IF d.gdb = <<>> THEN Val(ScratchOf(kind)) ELSE d.gdb,
             parse_table_name(d.name, ReplaceOf(kind)))

\* __init__, up to and including initialize_names
ConstructHandle(h, kind, temp, a) ==
    /\ handle[h].pc = "none"
    /\ \A g \in Handles : g < h => handle[g].pc # "none"
    /\ LET n == initialize_names(a.g, a.t, temp, ScratchOf(kind), ReplaceOf(kind), store)
       IN  handle' = [handle EXCEPT ![h] =
                [NoHandle EXCEPT !.kind = kind, !.temp = temp, !.gdb = n.gdb,
                                 !.name = n.name, !.full = n.full,
                                 !.pc = IF temp = TRUE THEN "resolved" ELSE "live",
                                 !.locPath = LocatorPath(kind, a),
                                 !.locExisted = Exists(LocatorPath(kind, a), store)]]
    /\ last' = [NoOp EXCEPT !.op = "resolve", !.h = h]
    /\ UNCHANGED <<store, robust, fnVars>>

Construct(h, kind, temp, a) ==
    /\ ConstructHandle(h, kind, temp, a)
    /\ UNCHANGED names

\* __init__ up to and including initialize_names, with the arguments and the
\* result of the initialize_names call kept in names
ConstructNames(h, kind, temp, a) ==
    /\ ConstructHandle(h, kind, temp, a)
    /\ LET n == initialize_names(a.g, a.t, temp, ScratchOf(kind), ReplaceOf(kind), store)
       IN  names' = [kind |-> kind, temp |-> temp, g |-> a.g, t |-> a.t,
                     asked |-> n.asked, gdb |-> n.gdb, name |-> n.name, full |-> n.full]

\* __init__ of a temporary handle, from the call of delete() to its end
ConstructDelete(h, ok) ==
    /\ handle[h].pc = "resolved"
    /\ LET d == delete(handle[h].full, store, ok)
           raise == CtorRaises(handle[h].kind, d.ret)
       IN  /\ store' = d.store
           /\ handle' = [handle EXCEPT ![h].pc = IF raise THEN "failed" ELSE "live",
                                       ![h].ctorRet = d.ret,
                                       ![h].raised = raise,
                                       ![h].disposed = (d.ret = "True")]
           /\ last' = DeleteOp("ctor", h, d, FALSE)
    /\ UNCHANGED <<robust, names, fnVars>>

----------------------------------------------------------------------------
(* Operations on a constructed handle *)

\* Table.createTable
createTable(h) ==
    /\ Usable(h) /\ handle[h].kind = "Table"
    /\ store' = store \cup {StorePath(handle[h].gdb, handle[h].name)}
    /\ last' = PlainOp("create", h, "none", 0, FALSE, store')
    /\ UNCHANGED <<handle, robust, names, fnVars>>

\* FeatureClass.create
create(h) ==
    /\ Usable(h) /\ handle[h].kind = "FeatureClass"
    /\ store' = store \cup {StorePath(handle[h].gdb, handle[h].name)}
    /\ last' = PlainOp("create", h, "none", 0, FALSE, store')
    /\ UNCHANGED <<handle, robust, names, fnVars>>

\* MosaicDataset.create_mosaic
create_mosaic(h) ==
    /\ Usable(h) /\ handle[h].kind = "MosaicDataset"
    /\ store' = IF ~Exists(handle[h].full, store)
                THEN store \cup {StorePath(handle[h].gdb, handle[h].name)}
                ELSE store
    /\ last' = PlainOp("create", h, "none", 1, FALSE, store')
    /\ UNCHANGED <<handle, robust, names, fnVars>>

\* Raster.copy_raster / MosaicDataset.copy_raster of some dataset, written to the
\* path of raster handle h (a raster handle has no create method of its own)
copy_raster(h) ==
    /\ Usable(h) /\ handle[h].kind = "Raster"
    /\ store' = store \cup {handle[h].full}
    /\ last' = PlainOp("create", h, "none", 0, FALSE, store')
    /\ UNCHANGED <<handle, robust, names, fnVars>>

\* exists()
exists(h) ==
    /\ Usable(h)
    /\ last' = PlainOp("exists", h,
                       IF Exists(handle[h].full, store) THEN "True" ELSE "False", 1, FALSE,
                       store)
    /\ UNCHANGED <<store, handle, robust, names, fnVars>>

\* an explicit call of delete()
Delete(h, ok) ==
    /\ Usable(h)
    /\ LET d == delete(handle[h].full, store, ok)
       IN  /\ store' = d.store
           /\ handle' = [handle EXCEPT ![h].disposed = @ \/ d.ret = "True"]
           /\ last' = DeleteOp("delete", h, d, FALSE)
    /\ UNCHANGED <<robust, names, fnVars>>

\* __enter__
Enter(h) ==
    /\ handle[h].pc = "live"
    /\ handle' = [handle EXCEPT ![h].pc = "scope"]
    /\ last' = PlainOp("enter", h, "none", 0, FALSE, store)
    /\ UNCHANGED <<store, robust, names, fnVars>>

\* the outcome of the delete() call made by __exit__
ExitOutcome(d) ==
    IF d.reqs = 0 THEN "noop" ELSE IF d.ret = "True" THEN "deleted" ELSE "failed"

\* __exit__ that raises arcpy.ExecuteError when delete() returns False, as the
\* constructor does
ExitRaises_OnFailure(ret) == ret = "False"

\* __exit__ calls delete() as a statement and has no raise: whatever delete()
\* returns, it raises nothing
ExitRaises(ret) == FALSE

\* the value __exit__ returns: it has no return statement
ExitValue == NoneV

\* a true value returned by __exit__ suppresses the exception in flight
Truthy(v) == v.tag # "None" /\ v.v # 0

\* __exit__ that clears the temporary flag once it has cleaned up
Exit_ClearsTemp(h, exc, ok) ==
    /\ handle[h].pc = "scope"
    /\ IF CleansUp(handle[h].temp)
       THEN LET d == delete(handle[h].full, store, ok)
            IN  /\ store' = d.store
                /\ handle' = [handle EXCEPT ![h].pc = "exited",
                                            ![h].exitOut = ExitOutcome(d),
                                            ![h].disposed = @ \/ d.ret = "True",
                                            ![h].temp = FALSE]
                /\ last' = DeleteOp("exit", h, d, exc)
       ELSE /\ store' = store
            /\ handle' = [handle EXCEPT ![h].pc = "exited", ![h].exitOut = "skipped"]
            /\ last' = PlainOp("exit", h, "none", 0, exc, store')
    /\ UNCHANGED <<robust, names, fnVars>>

\* __exit__(type, value, traceback); exc: an exception of the with-body is in flight
Exit(h, exc, ok) ==
    /\ handle[h].pc = "scope"
    /\ IF CleansUp(handle[h].temp)
       THEN LET d == delete(handle[h].full, store, ok)
            IN  /\ store' = d.store
                /\ handle' = [handle EXCEPT ![h].pc = "exited",
                                            ![h].exitOut = ExitOutcome(d),
                                            ![h].disposed = @ \/ d.ret = "True"]
                /\ last' = [DeleteOp("exit", h, d, exc) EXCEPT
                                !.raised = ExitRaises(d.ret),
                                !.suppressed = exc /\ Truthy(ExitValue)]
       ELSE /\ store' = store
            /\ handle' = [handle EXCEPT ![h].pc = "exited", ![h].exitOut = "skipped"]
            /\ last' = [PlainOp("exit", h, "none", 0, exc, store') EXCEPT
                                !.suppressed = exc /\ Truthy(ExitValue)]
    /\ UNCHANGED <<robust, names, fnVars>>

\* __del__: finalization of a handle that is no longer referenced, also of one
\* whose constructor raised
Del(h, ok) ==
    /\ handle[h].pc \in {"live", "exited", "failed"}
    /\ IF CleansUp(handle[h].temp)
       THEN LET d == delete(handle[h].full, store, ok)
            IN  /\ store' = d.store
                /\ handle' = [handle EXCEPT ![h].pc = "finalized",
                                            ![h].disposed = @ \/ d.ret = "True"]
                /\ last' = DeleteOp("del", h, d, FALSE)
       ELSE /\ store' = store
            /\ handle' = [handle EXCEPT ![h].pc = "finalized"]
            /\ last' = PlainOp("del", h, "none", 0, FALSE, store')
    /\ UNCHANGED <<robust, names, fnVars>>

----------------------------------------------------------------------------
(* Robust overview build *)

\* MosaicDataset.build_overviews as first defined: builds, then returns the number
\* of footprints with Category > 2 that the build left (count)
build_overviews_first(count) == IntV(count)

\* MosaicDataset.build_overviews as defined again right below: builds and
\* returns nothing
build_overviews_second(count) == NoneV

\* the method a call of self.build_overviews() reaches: the class body binds the
\* name twice and the later binding replaces the earlier
build_overviews(count) == build_overviews_second(count)

\* the while loop and the final test of build_overviews_robust, from the value
\* the latest build call returned; an ordering comparison of None with an int
\* raises TypeError
RECURSIVE RobustLoop(_, _, _, _, _, _)
RobustLoop(unbuilt_overview_count, retry_count, deletes, rets, counts, max_retries) ==
    LET r == [rets |-> rets, builds |-> Len(rets), deletes |-> deletes]
    IN  IF unbuilt_overview_count.tag = "None"
        THEN r @@ [outcome |-> "TypeError"]
        ELSE IF unbuilt_overview_count.v > 0 /\ retry_count < max_retries
        THEN LET next == build_overviews(counts[Len(rets) + 1])
             IN  RobustLoop(next, retry_count + 1, deletes + 1, Append(rets, next),
                            counts, max_retries)
        ELSE IF unbuilt_overview_count.v > 0
        THEN r @@ [outcome |-> "ExecuteError"]
        ELSE r @@ [outcome |-> "returned"]

\* the unbuilt counts the store may be left with by successive build calls
CountSeqs(n) == [1..n -> 0..MaxUnbuilt]

\* build_overviews_robust that deletes the bad overviews before its first build
build_overviews_robust_DeleteFirst(h, max_retries, counts) ==
    /\ Usable(h) /\ handle[h].kind = "MosaicDataset"
    /\ Exists(handle[h].full, store)
    /\ LET first == build_overviews(counts[1])
           r == RobustLoop(first, 1, 1, <<first>>, counts, max_retries)
       IN  robust' = [h |-> h, max_retries |-> max_retries, counts |-> counts,
                      rets |-> r.rets, builds |-> r.builds, deletes |-> r.deletes,
                      outcome |-> r.outcome]
    /\ last' = PlainOp("robust", h, "none", 0, FALSE, store)
    /\ UNCHANGED <<store, handle, names, fnVars>>

\* MosaicDataset.build_overviews_robust(max_retries) on an existing mosaic
\* dataset; counts[i] is the number of unbuilt overviews the i-th build leaves
build_overviews_robust(h, max_retries, counts) ==
    /\ Usable(h) /\ handle[h].kind = "MosaicDataset"
    /\ Exists(handle[h].full, store)
    /\ LET first == build_overviews(counts[1])
           r == RobustLoop(first, 1, 0, <<first>>, counts, max_retries)
       IN  robust' = [h |-> h, max_retries |-> max_retries, counts |-> counts,
                      rets |-> r.rets, builds |-> r.builds, deletes |-> r.deletes,
                      outcome |-> r.outcome]
    /\ last' = PlainOp("robust", h, "none", 0, FALSE, store)
    /\ UNCHANGED <<store, handle, names, fnVars>>

Next ==
    \/ \E h \in Handles : \E c \in CtorCalls(h) : Construct(h, c.kind, c.temp, c.a)
    \/ \E h \in Handles, ok \in BOOLEAN : ConstructDelete(h, ok)
    \/ \E h \in Handles : createTable(h)
    \/ \E h \in Handles : create(h)
    \/ \E h \in Handles : create_mosaic(h)
    \/ \E h \in Handles : copy_raster(h)
    \/ \E h \in Handles : exists(h)
    \/ \E h \in Handles, ok \in BOOLEAN : Delete(h, ok)
    \/ \E h \in Handles : Enter(h)
    \/ \E h \in Handles, exc \in BOOLEAN, ok \in BOOLEAN : Exit(h, exc, ok)
    \/ \E h \in Handles, ok \in BOOLEAN : Del(h, ok)

Spec == Init /\ [][Next]_vars

\* a mosaic dataset handle, its dataset and the robust overview build
NextOverviews ==
    \/ \E c \in CtorCalls(1) :
           c.kind = "MosaicDataset" /\ Construct(1, c.kind, c.temp, c.a)
    \/ \E ok \in BOOLEAN : ConstructDelete(1, ok)
    \/ create_mosaic(1)
    \/ \E max_retries \in 0..MaxRetries :
           \E counts \in CountSeqs(IF max_retries > 1 THEN max_retries ELSE 1) :
               build_overviews_robust(1, max_retries, counts)

SpecOverviews == Init /\ [][NextOverviews]_vars

\* the constructor of one handle, on the locators and names of NameCalls
NextNames ==
    \/ \E c \in NameCalls : ConstructNames(1, c.kind, c.temp, c.a)
    \/ \E ok \in BOOLEAN : ConstructDelete(1, ok)

SpecNames == Init /\ [][NextNames]_vars

\* no constructor is between its name resolution and its delete() call
NoConstructorRunning == \A g \in Handles : handle[g].pc # "resolved"

\* single-threaded use of temporary handles: a constructor runs to its end
\* before anything else happens
NextSingle ==
    \/ \E h \in Handles, ok \in BOOLEAN : ConstructDelete(h, ok)
    \/ /\ NoConstructorRunning
       /\ \/ \E h \in Handles : \E c \in CtorCalls(h) :
                 c.temp /\ Construct(h, c.kind, c.temp, c.a)
          \/ \E h \in Handles : createTable(h)
          \/ \E h \in Handles : create(h)
          \/ \E h \in Handles : create_mosaic(h)
          \/ \E h \in Handles : copy_raster(h)
          \/ \E h \in Handles : exists(h)
          \/ \E h \in Handles, ok \in BOOLEAN : Delete(h, ok)
          \/ \E h \in Handles : Enter(h)
          \/ \E h \in Handles, exc \in BOOLEAN, ok \in BOOLEAN : Exit(h, exc, ok)
          \/ \E h \in Handles, ok \in BOOLEAN : Del(h, ok)

SpecSingle == Init /\ [][NextSingle]_vars

\* the call of Timer.report_elapsed_time that Timer.__exit__ makes, once, at the
\* end of the timed block
TimerReport(elapsed_time) ==
    /\ ~timer.called
    /\ LET r == report_elapsed_time(elapsed_time)
       IN  timer' = [called |-> TRUE, elapsed_time |-> elapsed_time, ret |-> r.ret,
                     values |-> r.values]
    /\ UNCHANGED <<store, handle, last, robust, names, parsed, progressor, messages, pcall,
                   mosaic_layer, events>>

NextTimer == \E elapsed_time \in ElapsedTimes : TimerReport(elapsed_time)

SpecTimer == Init /\ [][NextTimer]_vars

\* parse_table_name(table_name, replacechars), and parse_table_name of its
\* result with the same map
ParseTwice(table_name, replacechars) ==
    /\ ~parsed.called
    /\ LET ret == parse_table_name(table_name, replacechars)
       IN  parsed' = [called |-> TRUE, table_name |-> table_name,
                      replacechars |-> replacechars, ret |-> ret,
                      again |-> parse_table_name(ret, replacechars)]
    /\ UNCHANGED <<store, handle, last, robust, names, timer, progressor, messages, pcall,
                   mosaic_layer, events>>

NextParse ==
    \E table_name \in TableNames, replacechars \in CharMaps :
        ParseTwice(table_name, replacechars)

SpecParse == Init /\ [][NextParse]_vars

----------------------------------------------------------------------------
(* Progressor: the progress bar of the toolkit.  messages is the sequence of
   calls the toolkit has received; a method is a function from the object to
   the object it leaves and the messages it sends. *)

ProgressorTypes == {"default", "step"}
Labels == {None, Some("a"), Some("b")}
Positions == {0, 1, 2}
Ranges == { [min_range |-> 0, max_range |-> 100, step_value |-> 1],
            [min_range |-> 0, max_range |-> 10, step_value |-> 2] }

SetProgressor(self) ==
    [fn |-> "SetProgressor",
     args |-> <<self.type, self.label, self.min_range, self.max_range,
                self.step_value>>]
SetProgressorLabel(label) == [fn |-> "SetProgressorLabel", args |-> <<label>>]
SetProgressorPosition(position) ==
    [fn |-> "SetProgressorPosition", args |-> <<position>>]
ResetProgressor == [fn |-> "ResetProgressor", args |-> <<>>]

Progressor_initialize(self) ==
    IF ~self.initialized
    THEN [self |-> [self EXCEPT !.initialized = TRUE],
          sent |-> <<SetProgressor(self)>>]
    ELSE [self |-> self, sent |-> <<>>]

Progressor_set_default_type(self) ==
    LET s == [self EXCEPT !.type = "default"]
    IN  [self |-> s,
         sent |-> IF s.initialized THEN <<SetProgressor(s)>> ELSE <<>>]

Progressor_set_range(self, min_range, max_range, step_value) ==
    LET s == [self EXCEPT !.type = "step", !.min_range = min_range,
                          !.max_range = max_range, !.step_value = step_value]
    IN  [self |-> s,
         sent |-> IF s.initialized THEN <<SetProgressor(s)>> ELSE <<>>]

Progressor_set_label_Always(self, label) ==
    LET s == [self EXCEPT !.label = label]
    IN  IF ~s.initialized
        THEN Progressor_initialize(s)
        ELSE [self |-> s, sent |-> <<SetProgressorLabel(s.label)>>]

Progressor_set_label(self, label) ==
    IF self.label # label
    THEN LET s == [self EXCEPT !.label = label]
         IN  IF ~s.initialized
             THEN Progressor_initialize(s)
             ELSE [self |-> s, sent |-> <<SetProgressorLabel(s.label)>>]
    ELSE [self |-> self, sent |-> <<>>]

Progressor_set_position(self, position) ==
    IF self.position # position
    THEN LET s == [self EXCEPT !.position = position]
             i == IF ~s.initialized THEN Progressor_initialize(s)
                                    ELSE [self |-> s, sent |-> <<>>]
         IN  [self |-> i.self,
              sent |-> i.sent \o <<SetProgressorPosition(i.self.position)>>]
    ELSE [self |-> self, sent |-> <<>>]

Progressor_reset(self) ==
    [self |-> self,
     sent |-> IF self.initialized THEN <<ResetProgressor>> ELSE <<>>]

\* Progressor(type, label): the constructor
Progressor__init__(type, label) ==
    /\ ~progressor.constructed
    /\ progressor' = [NoProgressor EXCEPT !.constructed = TRUE, !.type = type,
                                          !.label = label]
    /\ pcall' = [op |-> "__init__", arg |-> None, stored |-> None, sent |-> 0]
    /\ UNCHANGED <<store, handle, last, robust, names, timer, parsed, messages,
                   mosaic_layer, events>>

\* a method call with result r on the constructed Progressor
ProgressorCall(op, arg, stored, r) ==
    /\ progressor.constructed
    /\ Len(messages) + Len(r.sent) <= MaxMessages
    /\ progressor' = r.self
    /\ messages' = messages \o r.sent
    /\ pcall' = [op |-> op, arg |-> arg, stored |-> stored, sent |-> Len(r.sent)]
    /\ UNCHANGED <<store, handle, last, robust, names, timer, parsed, mosaic_layer, events>>

initialize == ProgressorCall("initialize", None, None, Progressor_initialize(progressor))

set_default_type ==
    ProgressorCall("set_default_type", None, None,
                   Progressor_set_default_type(progressor))

set_range(min_range, max_range, step_value) ==
    ProgressorCall("set_range", None, None,
                   Progressor_set_range(progressor, min_range, max_range, step_value))

set_label(label) ==
    ProgressorCall("set_label", label, progressor.label,
                   Progressor_set_label(progressor, label))

set_position(position) ==
    ProgressorCall("set_position", position, progressor.position,
                   Progressor_set_position(progressor, position))

reset == ProgressorCall("reset", None, None, Progressor_reset(progressor))

NextProgressor ==
    \/ \E type \in ProgressorTypes, label \in Labels : Progressor__init__(type, label)
    \/ initialize
    \/ set_default_type
    \/ \E r \in Ranges : set_range(r.min_range, r.max_range, r.step_value)
    \/ \E label \in Labels : set_label(label)
    \/ \E position \in Positions : set_position(position)
    \/ reset

SpecProgressor == Init /\ [][NextProgressor]_vars

----------------------------------------------------------------------------
(* MosaicDataset.mosaic_layer: the layer the footprint operations go through.
   mosaic_layer[h] is the attribute of MosaicDataset h, None after __init__, and
   a MosaicLayer object is known by the number of its construction.  events is
   what happened, in order: [h, fn, layer] for a construction of a MosaicLayer
   (layer = None when the constructor raised) and for a method of the layer that
   a MosaicDataset method called. *)

\* the methods of MosaicDataset that call create_layer and then one method of
\* the layer
LayerOps ==
    {"select_by_attribute", "calculate_field", "create_field", "delete_field",
     "set_properties", "join_table"}

\* the MosaicLayer objects constructed so far
Constructed ==
    Cardinality({ i \in 1..Len(events) :
                    events[i].fn = "MosaicLayer" /\ events[i].layer # None })

\* MosaicLayer(layer_name, mosaic_name): the object, or raises when the toolkit
\* cannot make the layer (ok = FALSE)
MosaicLayer(h, ok) ==
    IF ok
    THEN [layer |-> Some(Constructed + 1), raised |-> FALSE,
          events |-> <<[h |-> h, fn |-> "MosaicLayer", layer |-> Some(Constructed + 1)]>>]
    ELSE [layer |-> None, raised |-> TRUE,
          events |-> <<[h |-> h, fn |-> "MosaicLayer", layer |-> None]>>]

MosaicDataset_create_layer_Always(h, ok) ==
    MosaicLayer(h, ok)

MosaicDataset_create_layer(h, ok) ==
    IF mosaic_layer[h] = None
    THEN MosaicLayer(h, ok)
    ELSE [layer |-> mosaic_layer[h], raised |-> FALSE, events |-> <<>>]

\* h.create_layer()
create_layer(h, ok) ==
    LET c == MosaicDataset_create_layer(h, ok)
    IN  /\ Len(events) + Len(c.events) <= MaxEvents
        /\ mosaic_layer' = [mosaic_layer EXCEPT ![h] = c.layer]
        /\ events' = events \o c.events
        /\ UNCHANGED <<store, handle, last, robust, names, timer, parsed, progressor,
                       messages, pcall>>

\* h.op(...) for one of the delegating methods: create_layer(), then the method
\* of self.mosaic_layer
Delegate(h, op, ok) ==
    LET c == MosaicDataset_create_layer(h, ok)
        e == IF c.raised THEN <<>>
             ELSE <<[h |-> h, fn |-> op, layer |-> c.layer]>>
    IN  /\ Len(events) + Len(c.events) + Len(e) <= MaxEvents
        /\ mosaic_layer' = [mosaic_layer EXCEPT ![h] = c.layer]
        /\ events' = events \o c.events \o e
        /\ UNCHANGED <<store, handle, last, robust, names, timer, parsed, progressor,
                       messages, pcall>>

NextLayer ==
    \/ \E h \in Handles, ok \in BOOLEAN : create_layer(h, ok)
    \/ \E h \in Handles, op \in LayerOps, ok \in BOOLEAN : Delegate(h, op, ok)

SpecLayer == Init /\ [][NextLayer]_vars

----------------------------------------------------------------------------
(* Claims about the lifecycle of handles (Spec) *)

\* the latest operation was an operation of h that called delete()
CalledDelete(h) ==
    /\ last.h = h
    /\ \/ last.op \in {"ctor", "delete"}
       \/ last.op \in {"exit", "del"} /\ handle[h].temp

\* C1: whenever delete() returns failure inside the constructor of a temporary
\* handle, of whatever kind, the constructor raises and no usable handle results
C1_CtorFailsWhenDeleteFails ==
    \A h \in Handles :
        handle[h].ctorRet = "False" => handle[h].raised /\ ~Usable(h)

\* C2, as stated: a temporary handle constructed from a locator whose path
\* existed leaves that path non-existent when the constructor returns
C2_LocatorPathRemoved ==
    \A h \in Handles :
        (last.op = "ctor" /\ last.h = h /\ handle[h].pc = "live" /\ handle[h].locExisted)
            => handle[h].locPath \notin store

\* C2, amended: when the constructor of a temporary handle returns, the handle's
\* own path does not exist, unless the handle is a Raster whose deletion failed;
\* a locator path that existed at resolution is not the handle's path, so the
\* constructor requests no deletion of it
C2_HandlePathRemoved ==
    \A h \in Handles :
        (last.op = "ctor" /\ last.h = h /\ handle[h].pc = "live")
            => /\ (handle[h].kind # "Raster" \/ last.ret = "True")
                    => handle[h].full \notin store
               /\ handle[h].locExisted => handle[h].full # handle[h].locPath

C2_Witness ==
    \E h \in Handles :
        /\ last.op = "ctor" /\ last.h = h /\ handle[h].pc = "live"
        /\ handle[h].locExisted /\ handle[h].locPath \in store
        /\ handle[h].full \notin store

\* the deletion requests sent by __exit__ of handle h
ExitReqs(h) == IF handle[h].exitOut \in {"deleted", "failed"} THEN 1 ELSE 0

\* the latest operation finalized temporary handle h, whose resource existed when
\* its scope ended: at __exit__, or at __del__ when there was no __exit__
ScopeEndedOnResource(h) ==
    /\ last.op = "del" /\ last.h = h /\ handle[h].temp
    /\ ~handle[h].raised
    /\ \/ handle[h].exitOut \in {"deleted", "failed"}
       \/ handle[h].exitOut = "none" /\ last.existed

\* C3, as stated: over __exit__ and __del__ together exactly one deletion
\* request is sent
C3_ExactlyOneRequest ==
    \A h \in Handles : ScopeEndedOnResource(h) => ExitReqs(h) + last.reqs = 1

\* C3, amended: exactly one deletion request is sent over __exit__ and __del__
\* together when the resource no longer exists at __del__; when it still exists
\* then (the request of __exit__ failed) or exists again, __del__ sends a second
\* request
C3_OneRequestPerExistingResource ==
    \A h \in Handles :
        ScopeEndedOnResource(h) =>
            ExitReqs(h) + last.reqs =
                IF handle[h].exitOut # "none" /\ last.existed THEN 2 ELSE 1

C3_Witness ==
    \E h \in Handles :
        /\ ScopeEndedOnResource(h)
        /\ handle[h].exitOut = "deleted" /\ last.reqs = 0 /\ last.ret = "True"

C5_NonTemporaryUntouched ==
    \A h \in Handles :
        (last.op \in {"exit", "del"} /\ last.h = h /\ ~handle[h].temp) =>
            /\ last.checks = 0 /\ last.reqs = 0 /\ last.kept
            /\ last.existed => handle[h].full \in store

C5_Witness ==
    \E h \in Handles :
        /\ last.op = "del" /\ last.h = h /\ ~handle[h].temp
        /\ handle[h].exitOut = "skipped" /\ last.existed /\ handle[h].full \in store

\* the latest operation was an explicit delete() of h that directly followed
\* another call of delete() on h
DeletedTwice(h) == last.op = "delete" /\ last.h = h /\ last.prevRet # "none"

\* C6, as stated: two delete() calls in succession both return True and the
\* second leaves the store as the first left it
C6_TwiceBothTrue ==
    \A h \in Handles :
        DeletedTwice(h) => last.prevRet = "True" /\ last.ret = "True" /\ last.kept

\* C6, amended: when the first of two delete() calls in succession returns
\* True, the second returns True, sends no request and leaves the store as it
\* was; when the first returns False, the second sends the request again
C6_SecondDeleteNoop ==
    \A h \in Handles :
        DeletedTwice(h) =>
            /\ last.prevRet = "True" => last.ret = "True" /\ last.reqs = 0 /\ last.kept
            /\ last.prevRet = "False" => last.reqs = 1

C6_Witness ==
    \E h \in Handles :
        DeletedTwice(h) /\ last.prevRet = "True" /\ last.prevReqs = 1 /\ last.ret = "True"

C8_DisposedNoop ==
    \A h \in Handles :
        (CalledDelete(h) /\ last.wasDisposed) => last.reqs = 0 /\ last.ret = "True"

\* C8, amended: once delete() has returned True on a handle, a later delete()
\* on it is a no-op returning True exactly as long as the resource does not
\* exist again; after a create at the same path it sends a request again
C8_NoopWhileAbsent ==
    \A h \in Handles :
        (CalledDelete(h) /\ last.wasDisposed) =>
            /\ last.reqs = 0 <=> ~last.existed
            /\ ~last.existed => last.ret = "True" /\ last.kept

C8_Witness ==
    \E h \in Handles :
        /\ CalledDelete(h) /\ last.op = "delete" /\ last.wasDisposed
        /\ last.existed /\ last.reqs = 1

\* C17: whatever operations have been applied, every constructed handle, of any
\* kind, temporary or not, has as full name its name when its container is
\* empty, and its container joined with its name otherwise
C17_FullNameIsJoin ==
    \A h \in Handles :
        handle[h].pc # "none" =>
            handle[h].full = (IF handle[h].gdb = <<>> THEN handle[h].name
                              ELSE join(handle[h].gdb, handle[h].name))

\* a temporary handle with a container that has been created, used in a scope
\* and cleaned up
C17_Witness ==
    \E h \in Handles :
        /\ handle[h].temp /\ handle[h].gdb # <<>> /\ handle[h].name # <<>>
        /\ handle[h].pc = "exited" /\ last.op = "exit" /\ last.h = h /\ last.reqs = 1

\* C18: once the constructor has resolved them, no operation changes the
\* container, the name, the full path or the temporary flag of a handle
C18_IdentityFixed ==
    [][\A h \in Handles :
           handle[h].pc # "none" =>
               /\ handle'[h].gdb = handle[h].gdb
               /\ handle'[h].name = handle[h].name
               /\ handle'[h].full = handle[h].full
               /\ handle'[h].temp = handle[h].temp]_vars

\* a temporary handle that went through its whole life, up to finalization
C18_Witness ==
    \E h \in Handles :
        /\ handle[h].temp /\ handle[h].full # <<>>
        /\ handle[h].pc = "finalized" /\ handle[h].exitOut # "none"
        /\ last.op = "del" /\ last.h = h

\* C19: constructing a handle and entering its scope leave the store as it
\* was, and the path of a temporary handle whose constructor has just returned
\* does not exist
C19_FreshTemporaryAbsent ==
    /\ last.op \in {"resolve", "enter"} => last.kept
    /\ \A h \in Handles :
           (last.op = "ctor" /\ last.h = h /\ handle[h].temp /\ handle[h].pc = "live")
               => ~Exists(handle[h].full, store)

\* two temporary handles asked for the same name in the same workspace
SameRequest(h, g) ==
    /\ h # g /\ handle[h].temp /\ handle[g].temp
    /\ handle[h].pc # "none" /\ handle[g].pc # "none"
    /\ handle[h].locPath = handle[g].locPath

\* C20: nothing keeps two workers apart. A temporary handle whose name is
\* resolved while another one holds the requested path, not yet created, gets
\* that same path; and a deletion that succeeds in the constructor or at the
\* scope exit of one handle leaves the path of every handle with the same full
\* path non-existent, also of one that is inside its scope
C20_NoIsolation ==
    \A h, g \in Handles :
        SameRequest(h, g) =>
            /\ (/\ last.op = "resolve" /\ last.h = h
                /\ handle[g].full = handle[g].locPath
                /\ ~Exists(handle[g].full, store))
                   => handle[h].full = handle[g].full
            /\ (/\ last.op \in {"ctor", "exit"} /\ last.h = h /\ last.ret = "True"
                /\ handle[g].full = handle[h].full /\ handle[g].pc = "scope")
                   => ~Exists(handle[g].full, store)

\* two handles hold the same full path, one is inside its scope and has created
\* the resource, and the constructor of the other has just deleted it
C20_Witness ==
    \E h, g \in Handles :
        /\ SameRequest(h, g)
        /\ handle[g].full = handle[h].full
        /\ handle[g].pc = "scope"
        /\ last.op = "ctor" /\ last.h = h
        /\ last.existed /\ last.reqs = 1 /\ last.ret = "True"
        /\ ~Exists(handle[g].full, store)

\* C27: when the path the uniqueness service returned does not exist in the
\* store as the constructor of a temporary handle calls delete(), the
\* constructor sends no deletion request, delete() returns True, the handle is
\* constructed and the store is left as it was
C27_NoRequestWhileAbsent ==
    \A h \in Handles :
        (last.op = "ctor" /\ last.h = h /\ ~last.existed)
            => (last.reqs = 0 /\ last.kept /\ last.ret = "True" /\ handle[h].pc = "live")

\* the constructor of a temporary handle has returned without a request, and
\* the resource under the requested name, which existed, is still there
C27_Witness ==
    \E h \in Handles :
        /\ last.op = "ctor" /\ last.h = h /\ ~last.existed /\ last.reqs = 0
        /\ handle[h].locExisted /\ Exists(handle[h].locPath, store)
        /\ handle[h].full # handle[h].locPath

\* C28, as stated: when the deletion requested at the scope exit of a temporary
\* handle fails, __exit__ raises nothing, does not suppress an exception in
\* flight and the resource still exists; the finalization of the handle sends
\* one more deletion request
C28_FinalizationRequestsAgain ==
    \A h \in Handles :
        /\ (last.op = "exit" /\ last.h = h /\ handle[h].exitOut = "failed")
               => /\ ~last.raised /\ ~last.suppressed
                  /\ handle[h].pc = "exited"
                  /\ Exists(handle[h].full, store)
        /\ (last.op = "del" /\ last.h = h /\ handle[h].exitOut = "failed")
               => last.reqs = 1

\* C28, amended: when the deletion requested at the scope exit of a temporary
\* handle fails, __exit__ raises nothing, does not suppress an exception in flight,
\* the handle has left its scope and the resource still exists; a finalization
\* that follows finds the resource, and a finalization that finds it sends one
\* more deletion request
C28_ExitFailureNotPropagated ==
    \A h \in Handles :
        /\ (last.op = "exit" /\ last.h = h /\ handle[h].exitOut = "failed")
               => /\ ~last.raised /\ ~last.suppressed
                  /\ handle[h].pc = "exited"
                  /\ Exists(handle[h].full, store)
        /\ (last.op = "del" /\ last.h = h /\ handle[h].exitOut = "failed")
               => /\ last.prevRet = "False" => last.existed
                  /\ last.existed => last.reqs = 1

\* the deletion at scope exit failed while an exception was in flight
C28_Witness ==
    \E h \in Handles :
        /\ last.op = "exit" /\ last.h = h /\ handle[h].exitOut = "failed"
        /\ last.exc /\ last.msg = "AddError" /\ Exists(handle[h].full, store)

----------------------------------------------------------------------------
(* Claims about single-threaded use (SpecSingle) *)

\* C21, as stated: two temporary handles that are live at the same time have
\* different full paths
C21_LiveTemporariesDiffer ==
    \A h, g \in Handles :
        (h # g /\ handle[h].temp /\ handle[g].temp /\ Usable(h) /\ Usable(g))
            => handle[h].full # handle[g].full

\* a step that resolves the name of temporary handle g while the resource of
\* the temporary handle h exists
ResolvesBeside(g, h) ==
    /\ last'.op = "resolve" /\ last'.h = g /\ handle'[g].temp
    /\ h # g /\ handle[h].temp /\ Usable(h)
    /\ Exists(handle[h].full, store)

C21_Step ==
    /\ \A h, g \in Handles : ResolvesBeside(g, h) => handle'[g].full # handle[h].full
    /\ \A h \in Handles :
           (last'.op = "exit" /\ last'.h = h) => (store \ store') \subseteq {handle[h].full}

\* C21, amended: a temporary handle whose name is resolved while the resource
\* of another temporary handle exists gets a full path different from that
\* handle's, and a scope exit removes nothing but the path of its own handle
C21_DiffersFromExisting == [][C21_Step]_vars

\* a temporary handle is in its scope with its resource created, and a second
\* temporary handle asked for the same name has been constructed on another path
C21_Witness ==
    \E h, g \in Handles :
        /\ SameRequest(h, g) /\ handle[h].pc = "scope" /\ Exists(handle[h].full, store)
        /\ last.op = "ctor" /\ last.h = g /\ handle[g].pc = "live"
        /\ handle[g].full # handle[h].full

----------------------------------------------------------------------------
(* Claims about the robust overview build (SpecOverviews) *)

\* the first build attempt that leaves no unbuilt overview, 0 if there is none
\* among the attempts max_retries permits
FirstClean(counts, max_retries) ==
    LET clean == {k \in 1..max_retries : k \in DOMAIN counts /\ counts[k] = 0}
    IN  IF clean = {} THEN 0 ELSE CHOOSE k \in clean : \A j \in clean : k <= j

\* C9: every build_overviews call made by build_overviews_robust returns the
\* integer count of overviews the build left unbuilt
C9_ReturnsUnbuiltCount ==
    robust.outcome # "idle" =>
        \A i \in 1..Len(robust.rets) : robust.rets[i] = IntV(robust.counts[i])

\* C10: when some attempt k <= max_retries leaves no unbuilt overview,
\* build_overviews_robust returns normally after exactly k build calls, k being
\* the first such attempt
C10_ReturnsAfterFirstClean ==
    (robust.outcome # "idle" /\ FirstClean(robust.counts, robust.max_retries) > 0) =>
        /\ robust.outcome = "returned"
        /\ robust.builds = FirstClean(robust.counts, robust.max_retries)

\* the unbuilt count the last build call made has left
LastCount == robust.counts[robust.builds]

\* C11: build_overviews_robust raises arcpy.ExecuteError exactly when the last
\* build call it made left a positive unbuilt count; when max_retries >= 1 and
\* every build leaves a positive count, it raises after exactly max_retries
\* build calls
C11_ExecuteErrorIffUnbuiltRemains ==
    robust.outcome # "idle" =>
        /\ (robust.outcome = "ExecuteError") <=> (LastCount > 0)
        /\ (robust.max_retries >= 1 /\ \A i \in DOMAIN robust.counts : robust.counts[i] > 0)
               => (robust.outcome = "ExecuteError" /\ robust.builds = robust.max_retries)

----------------------------------------------------------------------------
(* Claims about name resolution (SpecNames) *)

\* the name the caller asked for: the explicit name, or the last component of
\* the locator when none was given
RequestedName == IF IsNone(names.t) THEN basename(names.g) ELSE Val(names.t)

\* s begins with p
StartsWith(s, p) == Len(s) >= Len(p) /\ SubSeq(s, 1, Len(p)) = p

\* C13: the name a Table or FeatureClass constructor resolves, temporary or not,
\* from an explicit name or from the split locator, holds no character that is a
\* key of the sanitize map, and begins with the requested name with every such
\* character replaced by its mapped value
C13_NameSanitized ==
    names.kind \in {"Table", "FeatureClass"} =>
        /\ \A i \in 1..Len(names.name) : names.name[i] \notin DOMAIN replace_list
        /\ StartsWith(names.name, ReplaceChars(RequestedName, replace_list))

\* C14: a non-temporary resolution given an explicit name, whatever string it
\* is, takes the locator verbatim as the container and the sanitized explicit
\* name as the name, and joins the two into the full path
C14_ExplicitNameVerbatim ==
    (names.kind # "none" /\ ~names.temp /\ ~IsNone(names.t)) =>
        /\ names.gdb = names.g
        /\ names.name = parse_table_name(Val(names.t), ReplaceOf(names.kind))
        /\ names.full = (IF names.gdb = <<>> THEN names.name
                         ELSE join(names.gdb, names.name))

\* the full path of a name in a container
full_path_of(container, name) ==
    IF container = <<>> THEN name ELSE join(container, name)

\* the latest resolution was non-temporary, without explicit name, of the full
\* path of name n in container c
ResolvedFullPathOf(c, n) ==
    /\ names.kind # "none" /\ ~names.temp /\ IsNone(names.t)
    /\ names.g = full_path_of(c, n)

\* C15, as stated: for every container and every name without separator,
\* resolving the full path of the name in the container, with no explicit
\* name, returns the container, the name and the full path
C15_RoundTrip ==
    \A c \in NameContainers, n \in NameNames :
        ResolvedFullPathOf(c, n) =>
            <<names.gdb, names.name, names.full>> = <<c, n, full_path_of(c, n)>>

\* the container is empty, or does not end with a separator, or holds nothing
\* but separators
NoTrailingSep(c) == c = <<>> \/ c[Len(c)] # Sep \/ RStripSep(c) = <<>>

\* C15, amended: the name and the full path always come back; the container
\* comes back when it has no trailing separator
C15_RoundTripNoTrailingSep ==
    \A c \in NameContainers, n \in NameNames :
        ResolvedFullPathOf(c, n) =>
            /\ names.name = n
            /\ names.full = full_path_of(c, n)
            /\ NoTrailingSep(c) => names.gdb = c

\* the full path of a name in a container has been resolved into the two
C15_Witness ==
    /\ ResolvedFullPathOf(<<"g", "/", "p">>, <<"t">>)
    /\ names.gdb = <<"g", "/", "p">> /\ names.name = <<"t">>

\* C16: a temporary resolution asks the uniqueness service exactly once, with
\* the sanitized name and with the resolved container, or the scratch workspace
\* the constructor passes when that container is empty; the names of the handle
\* are the split of the service's answer and its full path is the answer
C16_UniqueNameAskedOnce ==
    (names.kind # "none" /\ names.temp) =>
        LET d == decode_names(names.g, names.t)
        IN  /\ Len(names.asked) = 1
            /\ names.asked[1].name = parse_table_name(d.name, ReplaceOf(names.kind))
            /\ names.asked[1].workspace =
                   (IF d.gdb # <<>> THEN d.gdb ELSE Val(ScratchOf(names.kind)))
            /\ names.gdb = dirname(names.asked[1].answer)
            /\ names.name = basename(names.asked[1].answer)
            /\ names.full = names.asked[1].answer
            /\ <<handle[1].gdb, handle[1].name, handle[1].full>>
                   = <<names.gdb, names.name, names.full>>

\* the service was asked for t in the scratch workspace, where t exists, and
\* the handle holds the path it answered
C16_Witness ==
    /\ names.temp /\ names.g = <<"t">> /\ IsNone(names.t)
    /\ Len(names.asked) = 1
    /\ names.asked[1].answer = <<"s", "/", "t", "0">>
    /\ handle[1].full = <<"s", "/", "t", "0">>

----------------------------------------------------------------------------
(* Claims about the timer (SpecTimer) *)

\* the phrase of a value: the singular form for 1, the number and the plural
\* form otherwise
Phrase(n, one, many) == IF n = 1 THEN <<"1", " ", one>> ELSE Format(n) \o <<" ", many>>

\* C22: for an elapsed time t from 0 to 59 the report is the seconds phrase of t
\* and nothing else: "1 second" for 1, "<t> seconds" otherwise
C22_SecondsOnly ==
    (timer.called /\ timer.elapsed_time \in 0..59) =>
        /\ timer.elapsed_time = 1 => timer.ret = <<"1", " ", "second">>
        /\ timer.elapsed_time # 1
               => timer.ret = Format(timer.elapsed_time) \o <<" ", "seconds">>
        /\ Len(timer.values) = 1

\* one second and no second have been reported
C22_Witness ==
    /\ timer.called /\ timer.elapsed_time \in {0, 1}
    /\ timer.ret \in {<<"1", " ", "second">>, <<"0", " ", "seconds">>}

\* C23: for an elapsed time t from 60 to 3599 the report is the minutes phrase
\* of floor((t mod 3600) / 60), a space and the seconds phrase of t mod 60, each
\* phrase singular exactly for the value 1, and nothing else
C23_MinutesSeconds ==
    (timer.called /\ timer.elapsed_time \in 60..3599) =>
        LET m == (timer.elapsed_time % 3600) \div 60
            s == timer.elapsed_time % 60
        IN  /\ timer.ret = Phrase(m, "minute", "minutes") \o <<" ">>
                               \o Phrase(s, "second", "seconds")
            /\ Len(timer.values) = 2

\* one minute and one second have been reported
C23_Witness ==
    /\ timer.called /\ timer.elapsed_time = 61
    /\ timer.ret = <<"1", " ", "minute", " ", "1", " ", "second">>

\* C24: for an elapsed time t of 3600 or more the report is the hours phrase of
\* floor(t / 3600), the minutes phrase of floor((t mod 3600) / 60) and the
\* seconds phrase of t mod 60, in that order, each phrase singular exactly for
\* the value 1; the hours are not wrapped at 24
C24_HoursMinutesSeconds ==
    (timer.called /\ timer.elapsed_time >= 3600) =>
        LET h == timer.elapsed_time \div 3600
            m == (timer.elapsed_time % 3600) \div 60
            s == timer.elapsed_time % 60
        IN  /\ timer.ret = Phrase(h, "hour", "hours") \o <<" ">>
                               \o Phrase(m, "minute", "minutes") \o <<" ">>
                               \o Phrase(s, "second", "seconds")
            /\ Len(timer.values) = 3

\* twenty-five hours, one minute and one second have been reported
C24_Witness ==
    /\ timer.called /\ timer.elapsed_time = 90061
    /\ timer.ret = <<"2", "5", " ", "hours", " ", "1", " ", "minute", " ", "1", " ", "second">>

\* the value shown for the unit that is k places from the right (0: seconds,
\* 1: minutes, 2: hours), 0 when the unit is not shown
Shown(k) ==
    IF Len(timer.values) > k THEN timer.values[Len(timer.values) - k] ELSE 0

\* C26: for every elapsed time t >= 0 the seconds shown are within 0..59, the
\* minutes shown are within 0..59, and hours * 3600 + minutes * 60 + seconds
\* is t, a unit that is not shown counting as 0
C26_NothingLost ==
    timer.called =>
        /\ Shown(0) \in 0..59
        /\ Shown(1) \in 0..59
        /\ Shown(2) * 3600 + Shown(1) * 60 + Shown(0) = timer.elapsed_time

\* 59 minutes and 59 seconds have been reported as such
C26_Witness ==
    /\ timer.called /\ timer.elapsed_time = 3599
    /\ timer.values = <<59, 59>>

----------------------------------------------------------------------------
(* Claims about parse_table_name (SpecParse) *)

\* the characters of s that map m does not remove, in their order
NotRemoved(s, m) == SelectSeq(s, LAMBDA c : c \notin DOMAIN m \/ m[c] # <<>>)

\* s with every character that is a key of m replaced by the character it is
\* mapped to, or removed when it is mapped to the empty string
Replaced(s, m) ==
    [i \in 1..Len(NotRemoved(s, m)) |->
        IF NotRemoved(s, m)[i] \in DOMAIN m THEN m[NotRemoved(s, m)[i]][1]
        ELSE NotRemoved(s, m)[i]]

\* C25: parse_table_name returns its input unchanged when there is no map, and
\* otherwise the input with each key character replaced by its mapped value and
\* every other character kept in place; with the replace list "a b.c" becomes
\* "a_bc", and parsing the result again with the replace list changes nothing
C25_ReplacesEachCharacter ==
    parsed.called =>
        /\ IsNone(parsed.replacechars) => parsed.ret = parsed.table_name
        /\ ~IsNone(parsed.replacechars)
               => parsed.ret = Replaced(parsed.table_name, Val(parsed.replacechars))
        /\ (parsed.replacechars = Some(replace_list)
                /\ parsed.table_name = <<"a", " ", "b", ".", "c">>)
               => parsed.ret = <<"a", "_", "b", "c">>
        /\ parsed.replacechars = Some(replace_list) => parsed.again = parsed.ret

\* "a b.c" has been parsed with the replace list
C25_Witness ==
    /\ parsed.called /\ parsed.replacechars = Some(replace_list)
    /\ parsed.table_name = <<"a", " ", "b", ".", "c">>
    /\ parsed.ret = <<"a", "_", "b", "c">> /\ parsed.again = parsed.ret

----------------------------------------------------------------------------
(* Claims about the Progressor (SpecProgressor) *)

\* the toolkit has received nothing before its first SetProgressor, and the
\* latest set_label or set_position call whose argument was the stored value
\* sent nothing
C29_State ==
    /\ messages # <<>> => messages[1].fn = "SetProgressor"
    /\ pcall.op \in {"set_label", "set_position"} /\ pcall.arg = pcall.stored
          => pcall.sent = 0

\* no step takes the initialized flag back to false
C29_Step == progressor.initialized => progressor'.initialized

\* C29: over any sequence of initialize, set_default_type, set_range, set_label,
\* set_position and reset calls on a Progressor, no SetProgressorLabel,
\* SetProgressorPosition or ResetProgressor message reaches the toolkit before
\* the first SetProgressor message, the initialized flag never returns to false
\* once set, and a set_label or set_position call whose argument equals the
\* stored value sends nothing.
C29_ProgressorProtocol == []C29_State /\ [][C29_Step]_vars

\* an initialized Progressor whose latest call, set_label with the stored label,
\* came after messages of the other kinds had been sent
C29_Witness ==
    /\ progressor.initialized
    /\ pcall.op = "set_label" /\ pcall.arg = pcall.stored
    /\ Len(messages) = MaxMessages
    /\ \E i \in 1..Len(messages) :
           messages[i].fn \in {"SetProgressorLabel", "SetProgressorPosition",
                               "ResetProgressor"}

----------------------------------------------------------------------------
(* Claims about the mosaic layer (SpecLayer) *)

\* the positions of events at which a method of the layer was called for h
Delegated(h) == { i \in 1..Len(events) : events[i].h = h /\ events[i].fn \in LayerOps }

\* the positions of events at which a MosaicLayer was constructed for h
Created(h) ==
    { i \in 1..Len(events) :
        events[i].h = h /\ events[i].fn = "MosaicLayer" /\ events[i].layer # None }

\* C30: over any sequence of layer-delegating operations on a MosaicDataset, the
\* mosaic layer is created at most once per handle, it is created before the
\* first delegated operation reaches it, and every later operation reuses the
\* same layer object.
C30_OneLayerPerHandle ==
    \A h \in Handles :
        /\ Cardinality(Created(h)) <= 1
        /\ \A i \in Delegated(h) :
               /\ \E j \in Created(h) : j < i /\ events[j].layer = events[i].layer
               /\ events[i].layer = mosaic_layer[h]
        /\ \A i, k \in Delegated(h) : events[i].layer = events[k].layer

\* two delegated operations on one handle, after the layer's construction
C30_Witness ==
    \E h \in Handles :
        /\ Cardinality(Delegated(h)) >= 2
        /\ \E i, k \in Delegated(h) : events[i].fn # events[k].fn

====
